---- MODULE Spec2Model ----
(***************************************************************************)
(* A model of aws_instance_type_getter: the network-performance parser,    *)
(* the InstanceType field mapper, the three catalog fetchers and the main  *)
(* program.  Strings that the code inspects character by character (the    *)
(* network-performance descriptor) are sequences of one-character strings; *)
(* all other strings are TLA+ strings.                                     *)
(***************************************************************************)
EXTENDS Integers, Sequences, FiniteSets, TLC

VARIABLES
    spec,       \* the descriptor handed to _InstanceNetworkPerformance(spec)
    np,         \* the constructed _InstanceNetworkPerformance object, or None
    acc,        \* the outcome of the last property read on np, or None
    data,       \* the raw instance-type record handed to InstanceType(data)
    it,         \* the outcome of InstanceType(data), or None before the call
    provider,   \* what the provider's API answers: regions, params, zones, pages
    caller,     \* "main", or "harness" when a fetcher is called on its own
    pc,         \* where control is
    calls,      \* the API calls issued so far, each with its outcome
    exc,        \* the exception that reached the process boundary, or "none"
    region_names,   \* get_regions: region_names
    idx,            \* get_regions: the position of the for loop in region_names
    location,       \* get_regions: location
    display_name,   \* get_regions: display_name
    ret,            \* get_regions / get_instance_types: ret
    res,            \* get_instance_types: res
    region_name,    \* get_zones / get_instance_types: the region_name argument
    regions,        \* __main__: regions
    ridx,           \* __main__: the position of the for loop in regions
    zones,          \* __main__: zones
    instance_types, \* __main__: instance_types
    workbook,       \* __main__: workbook
    returns         \* how many times each fetcher has returned a result

parserVars == <<spec, np, acc>>
mapperVars == <<data, it>>
fetchVars ==
    <<provider, caller, pc, calls, exc, region_names, idx, location, display_name, ret,
      res, region_name, regions, ridx, zones, instance_types, workbook, returns>>

vars == <<parserVars, mapperVars, fetchVars>>

\* Python's None, where the code compares an object with it.
None == [none |-> TRUE]

\* The empty dict {}.  A dict is a function from its keys.
EmptyDict == [k \in {} |-> TRUE]

\* d.get(k, default)
Get(d, k, default) == IF k \in DOMAIN d THEN d[k] ELSE default

\* d.get(k) == v   (d.get(k) is None, equal to no v, when k is absent)
GetEquals(d, k, v) == k \in DOMAIN d /\ d[k] = v

\* v in list
Contains(list, v) == \E i \in 1..Len(list) : list[i] = v

\* No fetcher and no main program is running.
FetchIdle ==
    /\ provider = EmptyDict
    /\ caller = "harness"
    /\ pc = "idle"
    /\ calls = <<>>
    /\ exc = "none"
    /\ region_names = <<>>
    /\ idx = 1
    /\ location = <<>>
    /\ display_name = <<>>
    /\ ret = <<>>
    /\ res = EmptyDict
    /\ region_name = ""
    /\ regions = None
    /\ ridx = 1
    /\ zones = None
    /\ instance_types = None
    /\ workbook = None
    /\ returns = EmptyDict

---------------------------------------------------------------------------
(* Bounds *)

\* A descriptor is the concatenation of at most MaxPieces pieces of Pieces.
MaxPieces == 3

\* The lists of a raw record (architectures, disks, placement strategies)
\* hold at most MaxList entries.
MaxList == 2

\* A raw record says something about at most MaxGroups groups of keys.
MaxGroups == 3

\* describe_regions lists at most MaxRegions regions.
MaxRegions == 2

\* A region's instance-type catalog holds at most MaxRecords records, which
\* describe_instance_types hands out in at most MaxPages pages.
MaxRecords == 3
MaxPages == 2

---------------------------------------------------------------------------
(* Character strings *)

UpToLit == <<"U", "p", " ", "t", "o", " ">>
GigabitLit == <<" ", "G", "i", "g", "a", "b", "i", "t">>
XLit == <<"x", " ">>
VeryLowStr == <<"V", "e", "r", "y", " ", "L", "o", "w">>
LowStr == <<"L", "o", "w">>
LowToModerateStr ==
    <<"L", "o", "w", " ", "t", "o", " ", "M", "o", "d", "e", "r", "a", "t", "e">>
ModerateStr == <<"M", "o", "d", "e", "r", "a", "t", "e">>
HighStr == <<"H", "i", "g", "h">>

Digits == {"0", "1", "2", "3", "4", "5", "6", "7", "8", "9"}

IsDigit(c) == c \in Digits

DigitVal(c) ==
    CASE c = "0" -> 0 [] c = "1" -> 1 [] c = "2" -> 2 [] c = "3" -> 3
      [] c = "4" -> 4 [] c = "5" -> 5 [] c = "6" -> 6 [] c = "7" -> 7
      [] c = "8" -> 8 [] c = "9" -> 9

\* s has the literal lit at position i.
HasLit(s, i, lit) ==
    /\ i >= 1
    /\ i + Len(lit) - 1 <= Len(s)
    /\ SubSeq(s, i, i + Len(lit) - 1) = lit

\* The last position of the run of digits of s that starts at i (i - 1 when
\* s[i] is no digit): where a greedy \d+ stops.
RECURSIVE DigitRunEnd(_, _)
DigitRunEnd(s, i) ==
    IF i <= Len(s) /\ IsDigit(s[i]) THEN DigitRunEnd(s, i + 1) ELSE i - 1

Max(S) == CHOOSE x \in S : \A y \in S : y <= x

---------------------------------------------------------------------------
(* Enumerations *)

\* class InstanceNetworkPerformanceType
UPBOUND == "UPBOUND"
SINGLE == "SINGLE"
MULTIPLE == "MULTIPLE"
FUZZY == "FUZZY"
UNKNOWN == "UNKNOWN"

\* class InstanceNetworkFuzzySpeed
VERY_LOW == "Very Low"
LOW == "Low"
LOW_TO_MODERATE == "Low to Moderate"
MODERATE == "Moderate"
HIGH == "High"
INVALID == "Invalid"

---------------------------------------------------------------------------
(* float() and int() of a matched group *)

\* int(ds) for a string of digits.
RECURSIVE ParseInt(_)
ParseInt(ds) ==
    IF ds = <<>> THEN 0
    ELSE ParseInt(SubSeq(ds, 1, Len(ds) - 1)) * 10 + DigitVal(ds[Len(ds)])

\* A float is the decimal m / 10^e, with no trailing zero in the fraction:
\* 25.50 and 25.5 are the same float.
RECURSIVE NormFloat(_)
NormFloat(f) ==
    IF f.e > 0 /\ f.m % 10 = 0 THEN NormFloat([m |-> f.m \div 10, e |-> f.e - 1])
    ELSE f

ZeroFloat == [m |-> 0, e |-> 0]

\* float(txt) for txt matched by \d+(\.\d+)?
ParseFloat(txt) ==
    LET dots == {i \in 1..Len(txt) : txt[i] = "."}
        dot == IF dots = {} THEN Len(txt) + 1 ELSE CHOOSE i \in dots : TRUE
        whole == SubSeq(txt, 1, dot - 1)
        frac == SubSeq(txt, dot + 1, Len(txt))
    IN NormFloat([m |-> ParseInt(whole \o frac), e |-> Len(frac)])

---------------------------------------------------------------------------
(* The two regular expressions of _InstanceNetworkPerformance.__init__ *)

\* (\d+(\.\d+)?) Gigabit  tried at position i of s: the ways the pattern can
\* match, as <<a, b>> with s[i..a] the \d+ and s[a+1..b] the optional
\* (\.\d+) (b = a when it is skipped).
NumberGigabitMatches(s, i) ==
    {ab \in (i..DigitRunEnd(s, i)) \X (i..Len(s)) :
        LET a == ab[1]
            b == ab[2]
        IN /\ \/ b = a
              \/ /\ a + 1 <= Len(s)
                 /\ s[a + 1] = "."
                 /\ b >= a + 2
                 /\ b <= DigitRunEnd(s, a + 2)
           /\ HasLit(s, b + 1, GigabitLit)}

\* The match the backtracking engine reports: the longest \d+ first, and for
\* it the optional group taken, as long as possible, before it is skipped.
NumberGigabitMatch(s, i) ==
    LET ms == NumberGigabitMatches(s, i)
    IN IF ms = {} THEN [matched |-> FALSE]
       ELSE LET a == Max({ab[1] : ab \in ms})
                b == Max({ab[2] : ab \in {x \in ms : x[1] = a}})
            IN [matched |-> TRUE, number |-> SubSeq(s, i, b)]

\* MatchUpTo with the decimal part forgotten: ^Up to (\d+) Gigabit
MatchUpToIntegerOnly(s) ==
    LET a == DigitRunEnd(s, Len(UpToLit) + 1)
    IN IF /\ HasLit(s, 1, UpToLit)
          /\ a >= Len(UpToLit) + 1
          /\ HasLit(s, a + 1, GigabitLit)
       THEN [matched |-> TRUE, number |-> SubSeq(s, Len(UpToLit) + 1, a)]
       ELSE [matched |-> FALSE]

\* re.match(r"^Up to (\d+(\.\d+)?) Gigabit", spec): group 1, or no match.
MatchUpTo(s) ==
    IF HasLit(s, 1, UpToLit) THEN NumberGigabitMatch(s, Len(UpToLit) + 1)
    ELSE [matched |-> FALSE]

\* re.match(r"((\d+)x )?(\d+(\.\d+)?) Gigabit", spec): groups 2 and 3, or no
\* match.  The optional multiplier group is tried first (with every length
\* of its \d+ that "x " can follow: only the whole run can) and skipped if
\* the rest of the pattern fails after it.  group2 is falsy (here the empty
\* string) when skipped.
MatchRest(s) ==
    LET a == DigitRunEnd(s, 1)
        withMul == IF a >= 1 /\ HasLit(s, a + 1, XLit)
                   THEN NumberGigabitMatch(s, a + 1 + Len(XLit))
                   ELSE [matched |-> FALSE]
        without == NumberGigabitMatch(s, 1)
    IN IF withMul.matched
       THEN [matched |-> TRUE, group2 |-> SubSeq(s, 1, a), group3 |-> withMul.number]
       ELSE IF without.matched
       THEN [matched |-> TRUE, group2 |-> <<>>, group3 |-> without.number]
       ELSE [matched |-> FALSE]

---------------------------------------------------------------------------
(* class _InstanceNetworkPerformance *)

NetPerf(s, t, fz, sp, ag) ==
    [spec |-> s, performance_type |-> t, performance_fuzzy_value |-> fz,
     speed |-> sp, aggregation |-> ag]

\* _InstanceNetworkPerformance.__init__(spec)
NetworkPerformanceInit(s) ==
    IF s = VeryLowStr THEN NetPerf(s, FUZZY, VERY_LOW, ZeroFloat, 1)
    ELSE IF s = LowStr THEN NetPerf(s, FUZZY, LOW, ZeroFloat, 1)
    ELSE IF s = LowToModerateStr THEN NetPerf(s, FUZZY, LOW_TO_MODERATE, ZeroFloat, 1)
    ELSE IF s = ModerateStr THEN NetPerf(s, FUZZY, MODERATE, ZeroFloat, 1)
    ELSE IF s = HighStr THEN NetPerf(s, FUZZY, HIGH, ZeroFloat, 1)
    ELSE
        LET up_to_md == MatchUpTo(s)
            rest_md == MatchRest(s)
        IN IF up_to_md.matched
           THEN NetPerf(s, UPBOUND, INVALID, ParseFloat(up_to_md.number), 1)
           ELSE IF rest_md.matched
           THEN IF rest_md.group2 # <<>>
                THEN NetPerf(s, MULTIPLE, INVALID, ParseFloat(rest_md.group3),
                             ParseInt(rest_md.group2))
                ELSE NetPerf(s, SINGLE, INVALID, ParseFloat(rest_md.group3), 1)
           ELSE NetPerf(s, UNKNOWN, INVALID, ZeroFloat, 1)

\* The outcome of reading a property: a value, or the ValueError raised.
Returned(v) == [raised |-> FALSE, value |-> v]
Raised(e) == [raised |-> TRUE, error |-> e]

\* property performance_type
performance_type(self) == Returned(self.performance_type)

\* property performance_fuzzy_value
performance_fuzzy_value(self) ==
    IF self.performance_type # FUZZY THEN Raised("ValueError: Speed is not fuzzy")
    ELSE Returned(self.performance_fuzzy_value)

\* speed without its guard.
speedUnguarded(self) == Returned(self.speed)

\* property speed
speed(self) ==
    IF self.performance_type = FUZZY THEN Raised("ValueError: Speed is fuzzy")
    ELSE Returned(self.speed)

\* property aggregation
aggregation(self) == Returned(self.aggregation)

\* __str__ rebuilt from the parsed fields instead of the kept input: a
\* descriptor of the unknown class has nothing to rebuild from.
StrFromFields(self) ==
    Returned(IF self.performance_type = UNKNOWN THEN <<>> ELSE self.spec)

\* __str__
Str(self) == Returned(self.spec)

---------------------------------------------------------------------------
(* The parser on its own: construct from any descriptor, then read *)

Pieces ==
    {UpToLit, <<"3">>, <<"0">>, <<".", "5">>, <<"3", ".", "5">>, XLit,
     <<"3", "x", " ">>, GigabitLit,
     <<"V", "e", "r", "y", " ">>, LowStr, <<" ", "t", "o", " ">>, ModerateStr,
     HighStr}

RECURSIVE Concat(_)
Concat(ps) == IF ps = <<>> THEN <<>> ELSE Head(ps) \o Concat(Tail(ps))

Descriptors ==
    {Concat(ps) : ps \in UNION {[1..n -> Pieces] : n \in 0..MaxPieces}}

ParserInit ==
    /\ spec \in Descriptors
    /\ np = None
    /\ acc = None
    /\ data = EmptyDict
    /\ it = None
    /\ FetchIdle

Construct ==
    /\ np = None
    /\ np' = NetworkPerformanceInit(spec)
    /\ UNCHANGED <<spec, acc, mapperVars, fetchVars>>

ReadProperty(name, outcome) ==
    /\ np # None
    /\ acc' = [property |-> name, outcome |-> outcome]
    /\ UNCHANGED <<spec, np, mapperVars, fetchVars>>

ReadPerformanceType == np # None /\ ReadProperty("performance_type", performance_type(np))
ReadFuzzyValue ==
    np # None /\ ReadProperty("performance_fuzzy_value", performance_fuzzy_value(np))
ReadSpeed == np # None /\ ReadProperty("speed", speed(np))
ReadAggregation == np # None /\ ReadProperty("aggregation", aggregation(np))
ReadStr == np # None /\ ReadProperty("__str__", Str(np))

ParserNext ==
    \/ Construct
    \/ ReadPerformanceType
    \/ ReadFuzzyValue
    \/ ReadSpeed
    \/ ReadAggregation
    \/ ReadStr

SpecParser == ParserInit /\ [][ParserNext]_vars

---------------------------------------------------------------------------
(* class InstanceType: the field mapper *)

\* The closed value sets of the str-Enum classes.  Enum(v) raises ValueError
\* when v is outside the set and is v otherwise.
CpuArchitectures == {"arm64", "arm64_mac", "i386", "x86_64", "x86_64_mac"}
NvmeSupportStatus == {"required", "supported", "unsupported"}
InstanceStorageType == {"ssd", "hdd"}
EbsOptimizeSupportStatus == {"default", "supported", "unsupported"}
EnaSupport == {"required", "supported", "unsupported"}
PlacementStrategy == {"cluster", "partition", "spread"}

\* name .. supports_instance_store_root
IdentityFields(d) ==
    LET usage_classes == Get(d, "SupportedUsageClasses", <<>>)
        root_devices == Get(d, "SupportedRootDeviceTypes", <<>>)
    IN [name |-> Get(d, "InstanceType", "t1.micro"),
        is_current |-> Get(d, "CurrentGeneration", TRUE),
        supports_on_demand |-> Contains(usage_classes, "on-demand"),
        supports_spot |-> Contains(usage_classes, "spot"),
        supports_ebs_root |-> Contains(root_devices, "ebs"),
        supports_instance_store_root |-> Contains(root_devices, "instance-store")]

\* An unknown architecture dropped instead of rejected.
SupportCpusLenient(d) == TRUE

\* [CpuArchitectures(arch) for arch in ...] raises nothing
SupportCpusAccepted(d) ==
    LET archs == Get(Get(d, "ProcessorInfo", EmptyDict), "SupportedArchitectures", <<>>)
    IN \A i \in 1..Len(archs) : archs[i] \in CpuArchitectures

\* support_cpus .. memory_size
CpuFields(d) ==
    LET proc == Get(d, "ProcessorInfo", EmptyDict)
        vcpu == Get(d, "VCpuInfo", EmptyDict)
    IN [support_cpus |-> Get(proc, "SupportedArchitectures", <<>>),
        cpu_speed |-> Get(proc, "SustainedClockSpeedInGhz", ZeroFloat),
        supports_sev_snp |-> Contains(Get(proc, "SupportedFeatures", <<>>), "amd-sev-snp"),
        default_vcpus |-> Get(vcpu, "DefaultVCpus", 1),
        default_cores |-> Get(vcpu, "DefaultCores", 1),
        default_threads_per_core |-> Get(vcpu, "DefaultThreadsPerCore", 1),
        memory_size |-> Get(Get(d, "MemoryInfo", EmptyDict), "SizeInMiB", 0)]

\* [_InstanceStorageInfo(.., InstanceStorageType(d.get("Type", "ssd"))) ...]
\* raises nothing; the list is built only if InstanceStorageSupported.
InstanceStoreDisksAccepted(d) ==
    LET disks == Get(Get(d, "InstanceStorageInfo", EmptyDict), "Disks", <<>>)
    IN Get(d, "InstanceStorageSupported", FALSE) =>
          \A i \in 1..Len(disks) : Get(disks[i], "Type", "ssd") \in InstanceStorageType

\* The else branch without its instance_store_nvme_support assignment.
InstanceStoreFieldsNvmeOmitted(d) ==
    LET has_instance_store == Get(d, "InstanceStorageSupported", FALSE)
        instance_store_info == Get(d, "InstanceStorageInfo", EmptyDict)
        disks == Get(instance_store_info, "Disks", <<>>)
    IN IF has_instance_store
       THEN [has_instance_store |-> has_instance_store,
             total_instance_store_size |-> Get(instance_store_info, "TotalSizeInGB", 0),
             instance_store_disks |->
                 [i \in 1..Len(disks) |->
                     [size |-> Get(disks[i], "SizeInGB", 0),
                      count |-> Get(disks[i], "Count", 1),
                      storage_type |-> Get(disks[i], "Type", "ssd")]],
             instance_store_encryption |->
                 GetEquals(instance_store_info, "EncryptionSupport", "required")]
       ELSE [has_instance_store |-> has_instance_store,
             total_instance_store_size |-> 0,
             instance_store_disks |-> <<>>,
             instance_store_encryption |-> FALSE]

\* has_instance_store .. instance_store_encryption.  The branch taken when
\* storage is supported assigns no instance_store_nvme_support.
InstanceStoreFields(d) ==
    LET has_instance_store == Get(d, "InstanceStorageSupported", FALSE)
        instance_store_info == Get(d, "InstanceStorageInfo", EmptyDict)
        disks == Get(instance_store_info, "Disks", <<>>)
    IN IF has_instance_store
       THEN [has_instance_store |-> has_instance_store,
             total_instance_store_size |-> Get(instance_store_info, "TotalSizeInGB", 0),
             instance_store_disks |->
                 [i \in 1..Len(disks) |->
                     [size |-> Get(disks[i], "SizeInGB", 0),
                      count |-> Get(disks[i], "Count", 1),
                      storage_type |-> Get(disks[i], "Type", "ssd")]],
             instance_store_encryption |->
                 GetEquals(instance_store_info, "EncryptionSupport", "required")]
       ELSE [has_instance_store |-> has_instance_store,
             total_instance_store_size |-> 0,
             instance_store_disks |-> <<>>,
             instance_store_nvme_support |-> "unsupported",
             instance_store_encryption |-> FALSE]

\* EbsOptimizeSupportStatus(ebs_status.get("EbsOptimizedSupport", ..)) raises
\* nothing
EbsOptimizeAccepted(d) ==
    Get(Get(d, "EbsInfo", EmptyDict), "EbsOptimizedSupport", "unsupported")
        \in EbsOptimizeSupportStatus

\* support_ebs_optimize .. ebs_optimize_max_iops
EbsFields(d) ==
    LET ebs_status == Get(d, "EbsInfo", EmptyDict)
        support_ebs_optimize == Get(ebs_status, "EbsOptimizedSupport", "unsupported")
        opt_info == Get(ebs_status, "EbsOptimizedInfo", EmptyDict)
    IN [support_ebs_optimize |-> support_ebs_optimize,
        support_ebs_encrypt |->
            Get(ebs_status, "EncryptionSupport", "unsupported") = "supported",
        support_ebs_nvme |-> Get(ebs_status, "NvmeSupport", "supported") = "supported"]
       @@
       IF support_ebs_optimize # "unsupported"
       THEN [ebs_optimize_base_band |-> Get(opt_info, "BaselineBandwidthInMbps", 0),
             ebs_optimize_base_throughput |->
                 Get(opt_info, "BaselineThroughputInMBps", ZeroFloat),
             ebs_optimize_base_iops |-> Get(opt_info, "BaselineIops", 0),
             ebs_optimize_max_band |-> Get(opt_info, "MaximumBandwidthInMbps", 0),
             ebs_optimize_max_throughput |->
                 Get(opt_info, "MaximumThroughputInMBps", ZeroFloat),
             ebs_optimize_max_iops |-> Get(opt_info, "MaximumIops", 0)]
       ELSE [ebs_optimize_base_band |-> 0,
             ebs_optimize_base_throughput |-> ZeroFloat,
             ebs_optimize_base_iops |-> 0,
             ebs_optimize_max_band |-> 0,
             ebs_optimize_max_throughput |-> ZeroFloat,
             ebs_optimize_max_iops |-> 0]

\* EnaSupport(net_info.get("EnaSupport", "unsupported")) raises nothing
EnaSupportAccepted(d) ==
    Get(Get(d, "NetworkInfo", EmptyDict), "EnaSupport", "unsupported") \in EnaSupport

\* The per-interface default without its dependence on the support flag.
DefaultWhenSupportedZero(supported) == 0

\* 1 if self.support_ipv6 else 0  /  1 if self.efa_supported else 0
DefaultWhenSupported(supported) == IF supported THEN 1 ELSE 0

\* net_performance .. max_efa_interfaces
NetworkFields(d) ==
    LET net_info == Get(d, "NetworkInfo", EmptyDict)
        net_perf_v == Get(net_info, "NetworkPerformance", <<>>)
        cards == Get(net_info, "NetworkCards", <<>>)
        support_ipv6 == Get(net_info, "Ipv6Supported", FALSE)
        efa_supported == Get(net_info, "EfaSupported", FALSE)
    IN [net_performance |->
            IF net_perf_v # <<>> THEN NetworkPerformanceInit(net_perf_v) ELSE None,
        max_net_interface |-> Get(net_info, "MaximumNetworkInterfaces", 1),
        max_net_cards |-> Get(net_info, "MaximumNetworkCards", 1),
        default_card_index |-> Get(net_info, "DefaultNetworkCardIndex", 0),
        net_cards |->
            [i \in 1..Len(cards) |->
                [index |-> Get(cards[i], "NetworkCardIndex", i - 1),
                 performance |->
                     NetworkPerformanceInit(Get(cards[i], "NetworkPerformance", <<>>)),
                 max_interfaces |-> Get(cards[i], "MaximumNetworkInterfaces", 1)]],
        support_ipv6 |-> support_ipv6,
        ipv4_addr_per_interface |-> Get(net_info, "Ipv4AddressesPerInterface", 1),
        ipv6_addr_per_interface |->
            Get(net_info, "Ipv6AddressesPerInterface", DefaultWhenSupported(support_ipv6)),
        ena_support |-> Get(net_info, "EnaSupport", "unsupported"),
        efa_supported |-> efa_supported,
        max_efa_interfaces |->
            Get(Get(net_info, "EfaInfo", EmptyDict), "MaximumEfaInterfaces",
                DefaultWhenSupported(efa_supported))]

\* _GraphicBoard / _FpgaBoard from one raw board
Board(b) ==
    [name |-> Get(b, "Name", ""),
     manufacturer |-> Get(b, "Manufacturer", ""),
     count |-> Get(b, "Count", 1),
     memory |-> Get(Get(b, "MemoryInfo", EmptyDict), "SizeInMiB", 0)]

\* gpu_support, gpus, total_gpu_memory
GpuFields(d) ==
    LET gpus == Get(Get(d, "GpuInfo", EmptyDict), "Gpus", <<>>)
    IN IF "GpuInfo" \in DOMAIN d
       THEN [gpu_support |-> TRUE,
             gpus |-> [i \in 1..Len(gpus) |-> Board(gpus[i])],
             total_gpu_memory |->
                 Get(Get(d, "GpuInfo", EmptyDict), "TotalGpuMemoryInMiB", 0)]
       ELSE [gpu_support |-> FALSE, gpus |-> <<>>, total_gpu_memory |-> 0]

\* fpga_support, fpgas, total_fpga_memory
FpgaFields(d) ==
    LET fpgas == Get(Get(d, "FpgaInfo", EmptyDict), "Fpgas", <<>>)
    IN IF "FpgaInfo" \in DOMAIN d
       THEN [fpga_support |-> TRUE,
             fpgas |-> [i \in 1..Len(fpgas) |-> Board(fpgas[i])],
             total_fpga_memory |->
                 Get(Get(d, "FpgaInfo", EmptyDict), "TotalFpgaMemoryInMiB", 0)]
       ELSE [fpga_support |-> FALSE, fpgas |-> <<>>, total_fpga_memory |-> 0]

\* interface_accelerator_support, interface_accelerators.  The branch taken
\* when InferenceAcceleratorInfo is absent assigns no interface_accelerators.
AcceleratorFields(d) ==
    LET accs == Get(Get(d, "InferenceAcceleratorInfo", EmptyDict), "Accelerators", <<>>)
    IN IF "InferenceAcceleratorInfo" \in DOMAIN d
       THEN [interface_accelerator_support |-> TRUE,
             interface_accelerators |->
                 [i \in 1..Len(accs) |->
                     [name |-> Get(accs[i], "Name", ""),
                      manufacturer |-> Get(accs[i], "Manufacturer", ""),
                      count |-> Get(accs[i], "Count", 1)]]]
       ELSE [interface_accelerator_support |-> FALSE]

\* [PlacementStrategy(pn) for pn in ...] raises nothing
PlacementStrategiesAccepted(d) ==
    LET pns == Get(Get(d, "PlacementGroupInfo", EmptyDict), "SupportedStrategies", <<>>)
    IN \A i \in 1..Len(pns) : pns[i] \in PlacementStrategy

\* placement_strategies, support_hibernation, burstable
PlacementFields(d) ==
    [placement_strategies |->
         Get(Get(d, "PlacementGroupInfo", EmptyDict), "SupportedStrategies", <<>>),
     support_hibernation |-> Get(d, "HibernationSupported", FALSE),
     burstable |-> Get(d, "BurstablePerformanceSupported", FALSE)]

\* InstanceType.__init__(data): the object's attributes, or the ValueError of
\* the first enumeration that rejects its value.
InstanceTypeInit(d) ==
    IF /\ SupportCpusAccepted(d)
       /\ InstanceStoreDisksAccepted(d)
       /\ EbsOptimizeAccepted(d)
       /\ EnaSupportAccepted(d)
       /\ PlacementStrategiesAccepted(d)
    THEN Returned(IdentityFields(d) @@ CpuFields(d) @@ InstanceStoreFields(d)
                  @@ EbsFields(d) @@ NetworkFields(d) @@ GpuFields(d)
                  @@ FpgaFields(d) @@ AcceleratorFields(d) @@ PlacementFields(d))
    ELSE Raised("ValueError")

---------------------------------------------------------------------------
(* The raw records the mapper is run on *)

SeqsUpTo(E, n) == UNION {[1..m -> E] : m \in 0..n}

UpTo3Gigabit == UpToLit \o <<"3">> \o GigabitLit

\* What a record can say about each group of keys (beside nothing at all).
IdentityOptions ==
    {[InstanceType |-> "m5.large"], [CurrentGeneration |-> FALSE],
     [InstanceType |-> "m5.large", CurrentGeneration |-> TRUE]}

ProcessorOptions ==
    {[ProcessorInfo |-> [SupportedArchitectures |-> l]] :
        l \in SeqsUpTo({"x86_64", "riscv64"}, MaxList)}
    \cup {[ProcessorInfo |-> [SustainedClockSpeedInGhz |-> [m |-> 25, e |-> 1],
                             SupportedFeatures |-> <<"amd-sev-snp">>]]}

VCpuOptions ==
    {[VCpuInfo |-> [DefaultVCpus |-> 4]],
     [VCpuInfo |-> [DefaultVCpus |-> 8, DefaultCores |-> 4, DefaultThreadsPerCore |-> 2]]}

MemoryOptions == {[MemoryInfo |-> [SizeInMiB |-> 1024]]}

DiskSamples ==
    {[SizeInGB |-> 50, Count |-> 2, Type |-> "hdd"], [SizeInGB |-> 50, Type |-> "tape"]}

InstanceStorageInfos ==
    {[TotalSizeInGB |-> 100, Disks |-> l, NvmeSupport |-> "required",
      EncryptionSupport |-> "required"] : l \in SeqsUpTo(DiskSamples, MaxList)}
    \cup {EmptyDict}

InstanceStorageOptions ==
    {[InstanceStorageSupported |-> b] : b \in BOOLEAN}
    \cup {[InstanceStorageInfo |-> i] : i \in InstanceStorageInfos}
    \cup {[InstanceStorageSupported |-> b, InstanceStorageInfo |-> i] :
            b \in BOOLEAN, i \in InstanceStorageInfos}

EbsOptimizedInfoSample ==
    [BaselineBandwidthInMbps |-> 650, BaselineThroughputInMBps |-> [m |-> 8125, e |-> 2],
     BaselineIops |-> 3600, MaximumBandwidthInMbps |-> 4750,
     MaximumThroughputInMBps |-> [m |-> 59375, e |-> 2], MaximumIops |-> 18750]

EbsOptions ==
    {[EbsInfo |-> e] : e \in
        {[EbsOptimizedSupport |-> "default", EbsOptimizedInfo |-> EbsOptimizedInfoSample,
          EncryptionSupport |-> "supported", NvmeSupport |-> "required"],
         [EbsOptimizedSupport |-> "supported"],
         [EbsOptimizedSupport |-> "unsupported", EbsOptimizedInfo |-> EbsOptimizedInfoSample],
         [EbsOptimizedSupport |-> "always"],
         [NvmeSupport |-> "unsupported"],
         EmptyDict}}

NetworkOptions ==
    {[NetworkInfo |-> n] : n \in
        {EmptyDict,
         [EnaSupport |-> "required", Ipv6Supported |-> TRUE],
         [NetworkPerformance |-> UpTo3Gigabit, MaximumNetworkInterfaces |-> 3,
          MaximumNetworkCards |-> 2, DefaultNetworkCardIndex |-> 1,
          NetworkCards |-> <<[NetworkCardIndex |-> 1, NetworkPerformance |-> HighStr,
                              MaximumNetworkInterfaces |-> 2], EmptyDict>>,
          Ipv6Supported |-> TRUE, Ipv4AddressesPerInterface |-> 10,
          Ipv6AddressesPerInterface |-> 4, EnaSupport |-> "supported"],
         [EnaSupport |-> "optional"],
         [EfaSupported |-> TRUE],
         [EfaSupported |-> TRUE, EfaInfo |-> [MaximumEfaInterfaces |-> 2]],
         [Ipv6Supported |-> FALSE, EfaSupported |-> FALSE, NetworkPerformance |-> <<>>]}}

GpuOptions ==
    {[GpuInfo |-> [Gpus |-> <<[Name |-> "T4", Manufacturer |-> "NVIDIA", Count |-> 1,
                               MemoryInfo |-> [SizeInMiB |-> 16384]]>>,
                   TotalGpuMemoryInMiB |-> 16384]]}

FpgaOptions ==
    {[FpgaInfo |-> [Fpgas |-> <<[Name |-> "VU9P", Manufacturer |-> "Xilinx"]>>,
                    TotalFpgaMemoryInMiB |-> 65536]]}

AcceleratorOptions ==
    {[InferenceAcceleratorInfo |->
        [Accelerators |-> <<[Name |-> "Inferentia", Manufacturer |-> "AWS", Count |-> 4]>>]]}

PlacementOptions ==
    {[PlacementGroupInfo |-> [SupportedStrategies |-> l]] :
        l \in SeqsUpTo({"cluster", "rack"}, MaxList)}

OtherOptions ==
    {[SupportedUsageClasses |-> <<"on-demand", "spot">>,
      SupportedRootDeviceTypes |-> <<"ebs">>],
     [HibernationSupported |-> TRUE, BurstablePerformanceSupported |-> TRUE]}

Groups ==
    <<IdentityOptions, ProcessorOptions, VCpuOptions, MemoryOptions,
      InstanceStorageOptions, EbsOptions, NetworkOptions, GpuOptions, FpgaOptions,
      AcceleratorOptions, PlacementOptions, OtherOptions>>

\* The records that say something about exactly the groups of G.
RECURSIVE RecordsOf(_)
RecordsOf(G) ==
    IF G = {} THEN {EmptyDict}
    ELSE LET g == Max(G)
         IN {o @@ r : o \in Groups[g], r \in RecordsOf(G \ {g})}

\* The sets of at most MaxGroups groups.
GroupChoices == {G \in SUBSET (1..Len(Groups)) : Cardinality(G) <= MaxGroups}

MapperInit ==
    /\ \E G \in GroupChoices : data \in RecordsOf(G)
    /\ it = None
    /\ spec = <<>>
    /\ np = None
    /\ acc = None
    /\ FetchIdle

\* InstanceType(data)
MapRecord ==
    /\ it = None
    /\ it' = InstanceTypeInit(data)
    /\ UNCHANGED <<data, parserVars, fetchVars>>

MapperNext == MapRecord

SpecMapper == MapperInit /\ [][MapperNext]_vars

---------------------------------------------------------------------------
(* The provider: what the API calls answer *)

RegionNames == {"us-east-1", "eu-west-1", "ap-east-1"}

\* The provider errors an API call can end in.
ApiErrors == {"AuthFailure", "Throttling"}

\* A str | None value is <<>> for None and <<s>> for the string s.
NoStr == <<>>
Some(s) == <<s>>

\* not v, for v: str | None
Falsy(v) == v = NoStr \/ v = Some("")

\* "/aws/service/global-infrastructure/regions/" + region_name + "/" + leaf
ParamName(region, leaf) == <<region, leaf>>

Parameter(region, leaf, value) == [Name |-> ParamName(region, leaf), Value |-> value]

GeoOf(r) ==
    CASE r = "us-east-1" -> "US-VA" [] r = "eu-west-1" -> "IE" [] r = "ap-east-1" -> "HK"

LongNameOf(r) ==
    CASE r = "us-east-1" -> "US East (N. Virginia)"
      [] r = "eu-west-1" -> "Europe (Ireland)"
      [] r = "ap-east-1" -> "Asia Pacific (Hong Kong)"

\* What get_parameters_by_path can answer for the region r.
ParameterLists(r) ==
    <<  <<Parameter(r, "geolocationRegion", GeoOf(r)), Parameter(r, "longName", LongNameOf(r))>>,
        <<Parameter(r, "domain", "amazonaws.com"), Parameter(r, "longName", LongNameOf(r)),
          Parameter(r, "geolocationRegion", GeoOf(r))>>,
        <<Parameter(r, "geolocationRegion", GeoOf(r))>>,
        <<Parameter(r, "longName", LongNameOf(r)), Parameter(r, "partition", "aws")>>,
        <<>>,
        <<Parameter(r, "geolocationRegion", GeoOf(r)), Parameter(r, "longName", "")>>  >>

DistinctSeqs(S, n) ==
    {s \in SeqsUpTo(S, n) : \A i, j \in 1..Len(s) : i # j => s[i] # s[j]}

\* The raw records a page of describe_instance_types can hold.
RawSamples ==
    {[InstanceType |-> "m5.large"],
     [InstanceType |-> "c5.large", CurrentGeneration |-> TRUE],
     [InstanceType |-> "x9.large",
      ProcessorInfo |-> [SupportedArchitectures |-> <<"riscv64">>]]}

\* The ways to cut the catalog s into n consecutive pages (a page may be
\* empty): page j is s[c[j-1]+1 .. c[j]].
PageCuts(s, n) ==
    {c \in [0..n -> 0..Len(s)] :
        /\ c[0] = 0
        /\ c[n] = Len(s)
        /\ \A j \in 1..n : c[j - 1] <= c[j]}

\* The chains of at most MaxPages pages over catalogs of at most MaxRecords
\* records.
PageChains ==
    UNION {UNION {{[j \in 1..n |-> SubSeq(s, c[j - 1] + 1, c[j])] : c \in PageCuts(s, n)} :
                    n \in 1..MaxPages} :
             s \in SeqsUpTo(RawSamples, MaxRecords)}

\* The continuation token the provider hands out with page i.
TokenOf(i) == [cursor |-> i]

\* describe_instance_types(NextToken=token) on a chain of pages: the page
\* after the one that carried the token, with a NextToken unless it is the
\* last.  The first request carries no token.
PageResponse(chain, token) ==
    LET i == IF token = None THEN 1 ELSE token.cursor + 1
    IN [InstanceTypes |-> chain[i]]
       @@ (IF i < Len(chain) THEN [NextToken |-> TokenOf(i)] ELSE EmptyDict)

\* class ZoneType
ZoneType == {"availability-zone", "local-zone", "wavelength-zone"}

\* What describe_availability_zones can answer for the region r.
ZoneLists(r) ==
    <<  <<[ZoneName |-> "a", ZoneId |-> "az1", ZoneType |-> "availability-zone"],
          [ZoneName |-> "bos-1a", ZoneId |-> "bos1-az1", ZoneType |-> "local-zone"],
          [ZoneName |-> "wl1-bos-wlz-1", ZoneId |-> "wl1-bos-wlz1", ZoneType |-> "wavelength-zone"]>>,
        <<[ZoneName |-> "a", ZoneId |-> "az1", ZoneType |-> "availability-zone"],
          [ZoneName |-> "op-1a", ZoneId |-> "op1-az1", ZoneType |-> "outpost"]>>  >>

\* The instance-type pages of each region in the runs of the main program.
MainPages(r) ==
    CASE r = "us-east-1" ->
            <<  <<[InstanceType |-> "m5.large"]>>,
                <<[InstanceType |-> "c5.large", CurrentGeneration |-> TRUE]>>  >>
      [] r = "eu-west-1" ->
            <<  <<[InstanceType |-> "c5.large", CurrentGeneration |-> TRUE],
                  [InstanceType |-> "m5.large"]>>  >>
      [] r = "ap-east-1" ->
            <<  <<[InstanceType |-> "m5.large"]>>,
                <<[InstanceType |-> "x9.large",
                   ProcessorInfo |-> [SupportedArchitectures |-> <<"riscv64">>]]>>  >>

---------------------------------------------------------------------------
(* The catalog fetchers and the main program *)

NoReturns == [get_regions |-> 0, get_zones |-> 0, get_instance_types |-> 0]

Call(op, region, token, outcome) ==
    [op |-> op, region |-> region, token |-> token, outcome |-> outcome]

\* An exception leaves a fetcher: its frame, and every frame above it up to
\* the process boundary, is dropped; nothing is returned.
Unwind(e) ==
    /\ pc' = "terminated"
    /\ exc' = e
    /\ region_names' = <<>>
    /\ idx' = 1
    /\ location' = NoStr
    /\ display_name' = NoStr
    /\ ret' = <<>>
    /\ res' = EmptyDict
    /\ UNCHANGED <<provider, caller, region_name, regions, ridx, zones, instance_types,
                   workbook, returns>>

\* A handler that swallows the error and leaves the call to be made again.
ApiRaisesRetried(op, region, token, e) ==
    /\ calls' = Append(calls, Call(op, region, token, e))
    /\ UNCHANGED <<provider, caller, pc, exc, region_names, idx, location, display_name,
                   ret, res, region_name, regions, ridx, zones, instance_types, workbook,
                   returns>>

\* An API call raises the provider's error e: no handler, no retry.
ApiRaises(op, region, token, e) ==
    /\ calls' = Append(calls, Call(op, region, token, e))
    /\ Unwind(e)

\* args = parse_command_args(); session = Session(..); workbook = Workbook();
\* then regions = get_regions(session) is entered.
MainSetup ==
    /\ pc = "main"
    /\ workbook' = [rows |-> <<>>, saved_to |-> <<>>]
    /\ pc' = "gr_describe"
    /\ UNCHANGED <<parserVars, mapperVars, provider, caller, calls, exc, region_names, idx,
                   location, display_name, ret, res, region_name, regions, ridx, zones,
                   instance_types, returns>>

\* get_regions: regions_res = ec2.describe_regions(..); region_names = [..];
\* ret = []
GrDescribeRegions ==
    /\ pc = "gr_describe"
    /\ \/ /\ calls' = Append(calls, Call("describe_regions", "", None, "ok"))
          /\ region_names' = provider.regions
          /\ ret' = <<>>
          /\ idx' = 1
          /\ pc' = "gr_loop"
          /\ UNCHANGED <<provider, caller, exc, location, display_name, res, region_name,
                         regions, ridx, zones, instance_types, workbook, returns>>
       \/ \E e \in ApiErrors : ApiRaises("describe_regions", "", None, e)
    /\ UNCHANGED <<parserVars, mapperVars>>

\* location / display_name at the start of an iteration carried over from
\* the iteration before.
CarriedOver(previous) == previous

\* location: str | None = None  /  display_name: str | None = None
ResetForRegion(previous) == NoStr

\* for param in params["Parameters"]: the value of the last parameter named
\* name, or start when there is none.
RECURSIVE LastNamed(_, _, _)
LastNamed(params, name, start) ==
    IF params = <<>> THEN start
    ELSE LET param == params[Len(params)]
         IN IF param["Name"] = name THEN Some(param["Value"])
            ELSE LastNamed(SubSeq(params, 1, Len(params) - 1), name, start)

\* get_regions: one iteration of  for region_name in region_names
GrGetParameters ==
    /\ pc = "gr_loop"
    /\ idx <= Len(region_names)
    /\ LET name == region_names[idx]
           params == provider.params[name]
           loc == LastNamed(params, ParamName(name, "geolocationRegion"),
                            ResetForRegion(location))
           disp == LastNamed(params, ParamName(name, "longName"),
                             ResetForRegion(display_name))
       IN \/ /\ calls' = Append(calls, Call("get_parameters_by_path", name, None, "ok"))
             /\ location' = loc
             /\ display_name' = disp
             /\ ret' = IF Falsy(loc) \/ Falsy(disp) THEN ret
                       ELSE Append(ret, [name |-> name, location |-> loc[1],
                                         display_name |-> disp[1]])
             /\ idx' = idx + 1
             /\ UNCHANGED <<provider, caller, pc, exc, region_names, res, region_name,
                            regions, ridx, zones, instance_types, workbook, returns>>
          \/ \E e \in ApiErrors : ApiRaises("get_parameters_by_path", name, None, e)
    /\ UNCHANGED <<parserVars, mapperVars>>

\* get_regions: return ret
GrReturn ==
    /\ pc = "gr_loop"
    /\ idx > Len(region_names)
    /\ regions' = ret
    /\ returns' = [returns EXCEPT !.get_regions = @ + 1]
    /\ pc' = IF caller = "main" THEN "main_loop" ELSE "returned"
    /\ UNCHANGED <<parserVars, mapperVars, provider, caller, calls, exc, region_names, idx,
                   location, display_name, ret, res, region_name, ridx, zones,
                   instance_types, workbook>>

\* for region in regions: the next region, or the end of the program
MainNextRegion ==
    /\ pc = "main_loop"
    /\ \/ /\ ridx <= Len(regions)
          /\ region_name' = regions[ridx].name
          /\ pc' = "gz_describe"
       \/ /\ ridx > Len(regions)
          /\ pc' = "exit"
          /\ UNCHANGED region_name
    /\ UNCHANGED <<parserVars, mapperVars, provider, caller, calls, exc, region_names, idx,
                   location, display_name, ret, res, regions, ridx, zones, instance_types,
                   workbook, returns>>

\* [AvailabilityZone(az["ZoneName"], az["ZoneId"], ZoneType(az["ZoneType"])) ..]
AvailabilityZones(azs) ==
    IF \A i \in 1..Len(azs) : azs[i]["ZoneType"] \in ZoneType
    THEN Returned([i \in 1..Len(azs) |->
                      [name |-> azs[i]["ZoneName"], zone_id |-> azs[i]["ZoneId"],
                       zone_type |-> azs[i]["ZoneType"]]])
    ELSE Raised("ValueError")

\* get_zones(session, region.name), and zones = its result
GzDescribeZones ==
    /\ pc = "gz_describe"
    /\ LET made == AvailabilityZones(provider.zones[region_name])
       IN \/ /\ ~made.raised
             /\ calls' = Append(calls, Call("describe_availability_zones", region_name,
                                            None, "ok"))
             /\ zones' = made.value
             /\ returns' = [returns EXCEPT !.get_zones = @ + 1]
             /\ pc' = "gi_first"
             /\ UNCHANGED <<provider, caller, exc, region_names, idx, location,
                            display_name, ret, res, region_name, regions, ridx,
                            instance_types, workbook>>
          \/ /\ made.raised
             /\ calls' = Append(calls, Call("describe_availability_zones", region_name,
                                            None, "ok"))
             /\ Unwind(made.error)
          \/ \E e \in ApiErrors :
                ApiRaises("describe_availability_zones", region_name, None, e)
    /\ UNCHANGED <<parserVars, mapperVars>>

\* ret = more, in place of ret.extend(more)
extendOverwrites(list, more) == more

\* list.extend(more)
extend(list, more) == list \o more

\* [InstanceType(t) for t in res["InstanceTypes"]]
InstanceTypes(raw) ==
    IF \A i \in 1..Len(raw) : ~InstanceTypeInit(raw[i]).raised
    THEN Returned([i \in 1..Len(raw) |-> InstanceTypeInit(raw[i]).value])
    ELSE Raised("ValueError")

\* get_instance_types: res = ec2.describe_instance_types(); ret = [..]
GiFirstPage ==
    /\ pc = "gi_first"
    /\ LET page == PageResponse(provider.pages[region_name], None)
           made == InstanceTypes(page["InstanceTypes"])
       IN \/ /\ ~made.raised
             /\ calls' = Append(calls, Call("describe_instance_types", region_name, None, "ok"))
             /\ res' = page
             /\ ret' = made.value
             /\ pc' = "gi_while"
             /\ UNCHANGED <<provider, caller, exc, region_names, idx, location,
                            display_name, region_name, regions, ridx, zones,
                            instance_types, workbook, returns>>
          \/ /\ made.raised
             /\ calls' = Append(calls, Call("describe_instance_types", region_name, None, "ok"))
             /\ Unwind(made.error)
          \/ \E e \in ApiErrors : ApiRaises("describe_instance_types", region_name, None, e)
    /\ UNCHANGED <<parserVars, mapperVars>>

\* get_instance_types: one iteration of  while "NextToken" in res
GiNextPage ==
    /\ pc = "gi_while"
    /\ "NextToken" \in DOMAIN res
    /\ LET token == res["NextToken"]
           page == PageResponse(provider.pages[region_name], token)
           made == InstanceTypes(page["InstanceTypes"])
       IN \/ /\ ~made.raised
             /\ calls' = Append(calls, Call("describe_instance_types", region_name, token, "ok"))
             /\ res' = page
             /\ ret' = extend(ret, made.value)
             /\ UNCHANGED <<provider, caller, pc, exc, region_names, idx, location,
                            display_name, region_name, regions, ridx, zones,
                            instance_types, workbook, returns>>
          \/ /\ made.raised
             /\ calls' = Append(calls, Call("describe_instance_types", region_name, token, "ok"))
             /\ Unwind(made.error)
          \/ \E e \in ApiErrors : ApiRaises("describe_instance_types", region_name, token, e)
    /\ UNCHANGED <<parserVars, mapperVars>>

\* get_instance_types: return ret, and instance_types = its result; the
\* loop of the main program goes on to its next region.
GiReturn ==
    /\ pc = "gi_while"
    /\ "NextToken" \notin DOMAIN res
    /\ instance_types' = ret
    /\ returns' = [returns EXCEPT !.get_instance_types = @ + 1]
    /\ ridx' = IF caller = "main" THEN ridx + 1 ELSE ridx
    /\ pc' = IF caller = "main" THEN "main_loop" ELSE "returned"
    /\ UNCHANGED <<parserVars, mapperVars, provider, caller, calls, exc, region_names, idx,
                   location, display_name, ret, res, region_name, regions, zones, workbook>>

\* The state before anything has run, for a caller and a provider.
FetchInit(who, start, prov) ==
    /\ provider = prov
    /\ caller = who
    /\ pc = start
    /\ calls = <<>>
    /\ exc = "none"
    /\ region_names = <<>>
    /\ idx = 1
    /\ location = NoStr
    /\ display_name = NoStr
    /\ ret = <<>>
    /\ res = EmptyDict
    /\ regions = None
    /\ ridx = 1
    /\ zones = None
    /\ instance_types = None
    /\ workbook = None
    /\ returns = NoReturns
    /\ spec = <<>>
    /\ np = None
    /\ acc = None
    /\ data = EmptyDict
    /\ it = None

NoProvider ==
    [regions |-> <<>>, params |-> [r \in RegionNames |-> <<>>],
     zones |-> [r \in RegionNames |-> <<>>], pages |-> [r \in RegionNames |-> << <<>> >>]]

\* get_regions called on its own
RegionsInit ==
    /\ region_name = ""
    /\ \E rs \in DistinctSeqs(RegionNames, MaxRegions),
          f \in [RegionNames -> 1..Len(ParameterLists("us-east-1"))] :
          FetchInit("harness", "gr_describe",
                    [NoProvider EXCEPT !.regions = rs,
                                       !.params = [r \in RegionNames |-> ParameterLists(r)[f[r]]]])

RegionsNext == GrDescribeRegions \/ GrGetParameters \/ GrReturn

SpecRegions == RegionsInit /\ [][RegionsNext]_vars

\* get_instance_types called on its own
TypesInit ==
    /\ region_name = "us-east-1"
    /\ \E chain \in PageChains :
          FetchInit("harness", "gi_first",
                    [NoProvider EXCEPT !.pages = [r \in RegionNames |-> chain]])

TypesNext == GiFirstPage \/ GiNextPage \/ GiReturn

SpecTypes == TypesInit /\ [][TypesNext]_vars

\* python -m aws_instance_type_getter
MainInit ==
    /\ region_name = ""
    /\ \E rs \in DistinctSeqs(RegionNames, MaxRegions),
          f \in [RegionNames -> {1, 3}],
          z \in [RegionNames -> 1..Len(ZoneLists("us-east-1"))] :
          FetchInit("main", "main",
                    [regions |-> rs,
                     params |-> [r \in RegionNames |-> ParameterLists(r)[f[r]]],
                     zones |-> [r \in RegionNames |-> ZoneLists(r)[z[r]]],
                     pages |-> [r \in RegionNames |-> MainPages(r)]])

MainNext ==
    \/ MainSetup
    \/ GrDescribeRegions
    \/ GrGetParameters
    \/ GrReturn
    \/ MainNextRegion
    \/ GzDescribeZones
    \/ GiFirstPage
    \/ GiNextPage
    \/ GiReturn

SpecMain == MainInit /\ [][MainNext]_vars

---------------------------------------------------------------------------
(* The parser's rules, stated on the descriptor itself *)

AllDigits(t) == t # <<>> /\ \A i \in 1..Len(t) : IsDigit(t[i])

\* t is <number>: an integer or a decimal.
IsNumber(t) ==
    \/ AllDigits(t)
    \/ \E k \in 1..Len(t) :
          /\ t[k] = "."
          /\ AllDigits(SubSeq(t, 1, k - 1))
          /\ AllDigits(SubSeq(t, k + 1, Len(t)))

\* The value of the number t as a float: its digits weighted by position.
RECURSIVE Pow10(_)
Pow10(n) == IF n = 0 THEN 1 ELSE 10 * Pow10(n - 1)

RECURSIVE WeightedSum(_, _)
WeightedSum(ds, i) ==
    IF i > Len(ds) THEN 0
    ELSE DigitVal(ds[i]) * Pow10(Len(ds) - i) + WeightedSum(ds, i + 1)

NumberValue(t) ==
    LET ds == SelectSeq(t, IsDigit)
        dot == {k \in 1..Len(t) : t[k] = "."}
        e == IF dot = {} THEN 0 ELSE Len(t) - (CHOOSE k \in dot : TRUE)
    IN <<WeightedSum(ds, 1), e>>

\* The float f is the number v = <<digits, fraction length>>.
SameNumber(f, v) == f = NormFloat([m |-> v[1], e |-> v[2]])

\* The descriptor starts with  lit <number> " Gigabit"  where the number
\* starts at position i: the numbers <number> can be.
NumbersAt(s, i) ==
    {SubSeq(s, i, n) : n \in {k \in i..Len(s) :
        IsNumber(SubSeq(s, i, k)) /\ HasLit(s, k + 1, GigabitLit)}}

QualitativePhrases ==
    {VeryLowStr, LowStr, LowToModerateStr, ModerateStr, HighStr}

TierOf(s) ==
    CASE s = VeryLowStr -> VERY_LOW
      [] s = LowStr -> LOW
      [] s = LowToModerateStr -> LOW_TO_MODERATE
      [] s = ModerateStr -> MODERATE
      [] s = HighStr -> HIGH

\* "Up to <number> Gigabit"
UpToNumbers(s) ==
    IF HasLit(s, 1, UpToLit) THEN NumbersAt(s, Len(UpToLit) + 1) ELSE {}

\* "<N>x <number> Gigabit": the pairs <<N, number>>
MultiplierNumbers(s) ==
    UNION {{<<SubSeq(s, 1, k), x>> : x \in NumbersAt(s, k + Len(XLit) + 1)} :
             k \in {j \in 1..Len(s) : AllDigits(SubSeq(s, 1, j))
                                      /\ HasLit(s, j + 1, XLit)}}

\* "<number> Gigabit"
PlainNumbers(s) == NumbersAt(s, 1)

NetworkPerformanceTypes == {UPBOUND, SINGLE, MULTIPLE, FUZZY, UNKNOWN}

\* C1: constructing a network-performance value from any descriptor yields a
\* value (it never fails) that is exactly the result of the ordered rules:
\* (1) one of the five qualitative phrases, exactly: FUZZY with the matching
\* tier and aggregation 1; (2) otherwise a descriptor that starts with
\* "Up to <number> Gigabit": UPBOUND, speed = number, aggregation 1;
\* (3) otherwise one that starts with "<N>x <number> Gigabit": MULTIPLE,
\* aggregation = N, speed = number, and one that starts with
\* "<number> Gigabit": SINGLE, aggregation 1, speed = number; (4) otherwise
\* UNKNOWN with speed 0.0 and aggregation 1.  The patterns are matched at the
\* start of the descriptor, as re.match does.
C1_ParserRules ==
    np # None =>
        /\ np.performance_type \in NetworkPerformanceTypes
        /\ IF spec \in QualitativePhrases
           THEN /\ np.performance_type = FUZZY
                /\ np.performance_fuzzy_value = TierOf(spec)
                /\ np.aggregation = 1
           ELSE IF UpToNumbers(spec) # {}
           THEN /\ np.performance_type = UPBOUND
                /\ np.aggregation = 1
                /\ \A x \in UpToNumbers(spec) : SameNumber(np.speed, NumberValue(x))
           ELSE IF MultiplierNumbers(spec) # {}
           THEN /\ np.performance_type = MULTIPLE
                /\ \A nx \in MultiplierNumbers(spec) :
                      /\ np.aggregation = NumberValue(nx[1])[1]
                      /\ SameNumber(np.speed, NumberValue(nx[2]))
           ELSE IF PlainNumbers(spec) # {}
           THEN /\ np.performance_type = SINGLE
                /\ np.aggregation = 1
                /\ \A x \in PlainNumbers(spec) : SameNumber(np.speed, NumberValue(x))
           ELSE /\ np.performance_type = UNKNOWN
                /\ np.speed = ZeroFloat
                /\ np.aggregation = 1

\* "3x 3.5 Gigabit" has been parsed: aggregated, 3 links of 3.5.
C1_Witness ==
    /\ np # None
    /\ spec = <<"3">> \o XLit \o <<"3", ".", "5">> \o GigabitLit
    /\ np.performance_type = MULTIPLE
    /\ np.aggregation = 3
    /\ np.speed = [m |-> 35, e |-> 1]

\* C8: of speed and performance_fuzzy_value exactly one can be read: speed
\* raises if and only if the class is FUZZY, performance_fuzzy_value raises
\* if and only if it is not; aggregation and performance_type never raise.
C8_ExclusiveAccessors ==
    acc # None =>
        /\ acc.property = "speed" =>
              (acc.outcome.raised <=> np.performance_type = FUZZY)
        /\ acc.property = "performance_fuzzy_value" =>
              (acc.outcome.raised <=> np.performance_type # FUZZY)
        /\ acc.property \in {"aggregation", "performance_type"} =>
              ~acc.outcome.raised
        /\ speed(np).raised # performance_fuzzy_value(np).raised

\* speed was read on the qualitative value "Moderate", and raised.
C8_Witness ==
    /\ acc # None
    /\ spec = ModerateStr
    /\ acc.property = "speed"
    /\ acc.outcome.raised

\* C9: the string form of a parsed value is exactly the input descriptor,
\* whatever class it parsed to.
C9_StrRoundTrip ==
    (acc # None /\ acc.property = "__str__") => acc.outcome = Returned(spec)

\* The string form of an unmatched, non-empty descriptor was read.
C9_Witness ==
    /\ acc # None
    /\ acc.property = "__str__"
    /\ np.performance_type = UNKNOWN
    /\ spec = HighStr \o GigabitLit
    /\ acc.outcome.value = spec

---------------------------------------------------------------------------
(* The field mapper's claims, stated on the raw record itself *)

\* The record has the nested key k1.k2 / k1.k2.k3.
Has2(d, k1, k2) == k1 \in DOMAIN d /\ k2 \in DOMAIN d[k1]
Has3(d, k1, k2, k3) == Has2(d, k1, k2) /\ k3 \in DOMAIN d[k1][k2]

\* Some entry of the list d[k1][k2] is outside the set S.
ListHoldsOutside(d, k1, k2, S) ==
    Has2(d, k1, k2) /\ \E i \in 1..Len(d[k1][k2]) : d[k1][k2][i] \notin S

\* The Type of some disk of InstanceStorageInfo.Disks is outside its set.
DiskTypeOutside(d) ==
    /\ Has2(d, "InstanceStorageInfo", "Disks")
    /\ \E i \in 1..Len(d["InstanceStorageInfo"]["Disks"]) :
          LET disk == d["InstanceStorageInfo"]["Disks"][i]
          IN "Type" \in DOMAIN disk /\ disk["Type"] \notin {"ssd", "hdd"}

\* An enumerated field other than a disk's Type holds an out-of-set value.
EnumeratedFieldOutside(d) ==
    \/ ListHoldsOutside(d, "ProcessorInfo", "SupportedArchitectures",
                        {"arm64", "arm64_mac", "i386", "x86_64", "x86_64_mac"})
    \/ /\ Has2(d, "EbsInfo", "EbsOptimizedSupport")
       /\ d["EbsInfo"]["EbsOptimizedSupport"] \notin {"default", "supported", "unsupported"}
    \/ /\ Has2(d, "NetworkInfo", "EnaSupport")
       /\ d["NetworkInfo"]["EnaSupport"] \notin {"required", "supported", "unsupported"}
    \/ ListHoldsOutside(d, "PlacementGroupInfo", "SupportedStrategies",
                        {"cluster", "partition", "spread"})

\* The record's InstanceStorageSupported flag is true.
StorageFlagged(d) ==
    "InstanceStorageSupported" \in DOMAIN d /\ d["InstanceStorageSupported"] = TRUE

\* C2 as claimed: whenever any enumerated field of the record (an
\* architecture, a disk's Type, EbsOptimizedSupport, EnaSupport, a placement
\* strategy) holds a value outside its closed set, constructing the
\* InstanceType raises, whatever the other fields are.
C2_AnyOutOfSetRaises ==
    (it # None /\ (EnumeratedFieldOutside(data) \/ DiskTypeOutside(data))) => it.raised

\* C2 as amended: the same, with a disk's Type counted only when the
\* record's InstanceStorageSupported flag is true (the disks of a record
\* without the flag are not read); a construction that raises yields no
\* InstanceType.
C2_CheckedOutOfSetRaises ==
    (/\ it # None
     /\ \/ EnumeratedFieldOutside(data)
        \/ DiskTypeOutside(data) /\ StorageFlagged(data))
        => (it.raised /\ "value" \notin DOMAIN it)

\* A record with a valid and an unknown architecture, and a GPU, was
\* rejected.
C2_Witness ==
    /\ it # None
    /\ it.raised
    /\ Has2(data, "ProcessorInfo", "SupportedArchitectures")
    /\ data["ProcessorInfo"]["SupportedArchitectures"] = <<"x86_64", "riscv64">>
    /\ "GpuInfo" \in DOMAIN data

\* C3: every field absent from the record is mapped to its default: name
\* "t1.micro", current generation true, default vCPUs = cores = threads per
\* core = 1, memory 0, EBS optimization unsupported, ENA unsupported, max
\* network interfaces = cards = 1, IPv6 addresses per interface 1 if the
\* record's Ipv6Supported is true else 0, max EFA interfaces 1 if the
\* record's EfaSupported is true else 0; and without GpuInfo, FpgaInfo,
\* InferenceAcceleratorInfo, InstanceStorageInfo there is no GPU, FPGA or
\* accelerator support and the instance-store size is 0.
C3_Defaults ==
    (it # None /\ ~it.raised) =>
        LET o == it.value
            d == data
        IN /\ "InstanceType" \notin DOMAIN d => o.name = "t1.micro"
           /\ "CurrentGeneration" \notin DOMAIN d => o.is_current = TRUE
           /\ ~Has2(d, "VCpuInfo", "DefaultVCpus") => o.default_vcpus = 1
           /\ ~Has2(d, "VCpuInfo", "DefaultCores") => o.default_cores = 1
           /\ ~Has2(d, "VCpuInfo", "DefaultThreadsPerCore") => o.default_threads_per_core = 1
           /\ ~Has2(d, "MemoryInfo", "SizeInMiB") => o.memory_size = 0
           /\ ~Has2(d, "EbsInfo", "EbsOptimizedSupport") =>
                 o.support_ebs_optimize = "unsupported"
           /\ ~Has2(d, "NetworkInfo", "EnaSupport") => o.ena_support = "unsupported"
           /\ ~Has2(d, "NetworkInfo", "MaximumNetworkInterfaces") => o.max_net_interface = 1
           /\ ~Has2(d, "NetworkInfo", "MaximumNetworkCards") => o.max_net_cards = 1
           /\ ~Has2(d, "NetworkInfo", "Ipv6AddressesPerInterface") =>
                 o.ipv6_addr_per_interface =
                     IF Has2(d, "NetworkInfo", "Ipv6Supported")
                        /\ d["NetworkInfo"]["Ipv6Supported"] = TRUE
                     THEN 1 ELSE 0
           /\ ~Has3(d, "NetworkInfo", "EfaInfo", "MaximumEfaInterfaces") =>
                 o.max_efa_interfaces =
                     IF Has2(d, "NetworkInfo", "EfaSupported")
                        /\ d["NetworkInfo"]["EfaSupported"] = TRUE
                     THEN 1 ELSE 0
           /\ "GpuInfo" \notin DOMAIN d => o.gpu_support = FALSE
           /\ "FpgaInfo" \notin DOMAIN d => o.fpga_support = FALSE
           /\ "InferenceAcceleratorInfo" \notin DOMAIN d =>
                 o.interface_accelerator_support = FALSE
           /\ "InstanceStorageInfo" \notin DOMAIN d => o.total_instance_store_size = 0

\* A record that says only that IPv6 is supported was mapped: one IPv6
\* address per interface, every other field at its default.
C3_Witness ==
    /\ it # None
    /\ ~it.raised
    /\ data = [NetworkInfo |-> [EnaSupport |-> "required", Ipv6Supported |-> TRUE]]
    /\ it.value.ipv6_addr_per_interface = 1
    /\ it.value.max_efa_interfaces = 0
    /\ it.value.name = "t1.micro"
    /\ it.value.default_vcpus = 1

\* The attribute a of the mapped object is set, to v.
IsSetTo(o, a, v) == a \in DOMAIN o /\ o[a] = v

\* C4: for each conditional sub-structure (instance storage, EBS and its
\* optimize detail, GPU, FPGA, inference accelerators), when the parent key
\* is absent from the record every dependent field of the InstanceType is
\* still set, to its "no support" default (false, 0, empty list,
\* unsupported): none is omitted and none defaults to a "supported" value.
C4_AbsentParentNoSupport ==
    (it # None /\ ~it.raised) =>
        LET o == it.value
            d == data
        IN /\ "InstanceStorageInfo" \notin DOMAIN d =>
                 /\ IsSetTo(o, "total_instance_store_size", 0)
                 /\ IsSetTo(o, "instance_store_disks", <<>>)
                 /\ IsSetTo(o, "instance_store_nvme_support", "unsupported")
                 /\ IsSetTo(o, "instance_store_encryption", FALSE)
           /\ "EbsInfo" \notin DOMAIN d =>
                 /\ IsSetTo(o, "support_ebs_optimize", "unsupported")
                 /\ IsSetTo(o, "support_ebs_encrypt", FALSE)
                 /\ IsSetTo(o, "support_ebs_nvme", FALSE)
                 /\ IsSetTo(o, "ebs_optimize_base_band", 0)
                 /\ IsSetTo(o, "ebs_optimize_base_throughput", ZeroFloat)
                 /\ IsSetTo(o, "ebs_optimize_base_iops", 0)
                 /\ IsSetTo(o, "ebs_optimize_max_band", 0)
                 /\ IsSetTo(o, "ebs_optimize_max_throughput", ZeroFloat)
                 /\ IsSetTo(o, "ebs_optimize_max_iops", 0)
           /\ "GpuInfo" \notin DOMAIN d =>
                 /\ IsSetTo(o, "gpu_support", FALSE)
                 /\ IsSetTo(o, "gpus", <<>>)
                 /\ IsSetTo(o, "total_gpu_memory", 0)
           /\ "FpgaInfo" \notin DOMAIN d =>
                 /\ IsSetTo(o, "fpga_support", FALSE)
                 /\ IsSetTo(o, "fpgas", <<>>)
                 /\ IsSetTo(o, "total_fpga_memory", 0)
           /\ "InferenceAcceleratorInfo" \notin DOMAIN d =>
                 /\ IsSetTo(o, "interface_accelerator_support", FALSE)
                 /\ IsSetTo(o, "interface_accelerators", <<>>)

---------------------------------------------------------------------------
(* The fetchers and the main program, stated on the provider's answers *)

\* The values the provider's answer for the region r gives the parameter leaf.
ValuesIn(r, leaf) ==
    {provider.params[r][i]["Value"] :
        i \in {j \in 1..Len(provider.params[r]) :
                  provider.params[r][j]["Name"] = ParamName(r, leaf)}}

\* The lookup for r yields a location and a display name.
YieldsBoth(r) ==
    /\ \E v \in ValuesIn(r, "geolocationRegion") : v # ""
    /\ \E v \in ValuesIn(r, "longName") : v # ""

\* C5: when get_regions returns, its result names exactly the listed regions
\* whose parameter lookup yields both a non-empty geolocationRegion and a
\* non-empty longName, in the order the provider listed them; every entry
\* carries the location and display name found in the lookup of its own
\* region; and a region dropped raises nothing: an exception leaves
\* get_regions only when an API call failed.
C5_RegionsFiltered ==
    /\ pc = "returned" =>
        /\ exc = "none"
        /\ [i \in 1..Len(regions) |-> regions[i].name] = SelectSeq(provider.regions, YieldsBoth)
        /\ \A i \in 1..Len(regions) :
            /\ regions[i].location \in ValuesIn(regions[i].name, "geolocationRegion")
            /\ regions[i].display_name \in ValuesIn(regions[i].name, "longName")
    /\ exc # "none" => calls # <<>> /\ calls[Len(calls)].outcome = exc /\ exc \in ApiErrors

\* Two regions listed, the first complete, the second with a location but no
\* display name: the result is the first region alone.
C5_Witness ==
    /\ pc = "returned"
    /\ Len(provider.regions) = 2
    /\ YieldsBoth(provider.regions[1])
    /\ ValuesIn(provider.regions[2], "geolocationRegion") # {}
    /\ ValuesIn(provider.regions[2], "longName") = {}
    /\ Len(regions) = 1
    /\ regions[1].name = provider.regions[1]

RECURSIVE Flatten(_)
Flatten(pages) ==
    IF pages = <<>> THEN <<>> ELSE pages[1] \o Flatten(SubSeq(pages, 2, Len(pages)))

\* The answer the provider gave to the i-th request of the log.
AnswerTo(i) == PageResponse(provider.pages[calls[i].region], calls[i].token)

\* C6: get_instance_types never issues more requests than the chain has
\* pages, and when it returns it has issued exactly one request per page:
\* the first without a token, each later one with the token the answer
\* before it carried, the last answer being the first one without a token;
\* and its result is the mapped records of all pages, in page order and in
\* record order within a page, none dropped and none twice.
C6_FollowsTokens ==
    LET chain == provider.pages[region_name]
        all == Flatten(chain)
    IN /\ Len(calls) <= Len(chain)
       /\ pc = "returned" =>
            /\ Len(calls) = Len(chain)
            /\ calls[1].token = None
            /\ \A i \in 2..Len(calls) :
                /\ "NextToken" \in DOMAIN AnswerTo(i - 1)
                /\ calls[i].token = AnswerTo(i - 1)["NextToken"]
            /\ "NextToken" \notin DOMAIN AnswerTo(Len(calls))
            /\ \A i \in 1..Len(calls) : calls[i].outcome = "ok"
            /\ Len(instance_types) = Len(all)
            /\ \A i \in 1..Len(all) : instance_types[i] = InstanceTypeInit(all[i]).value

\* A chain of two pages, two records on the first and another on the second.
C6_Witness ==
    /\ pc = "returned"
    /\ Len(provider.pages[region_name]) = 2
    /\ Len(provider.pages[region_name][1]) = 2
    /\ provider.pages[region_name][1][1] # provider.pages[region_name][1][2]
    /\ Len(provider.pages[region_name][2]) = 1
    /\ provider.pages[region_name][2][1] # provider.pages[region_name][1][2]
    /\ Len(calls) = 2
    /\ Len(instance_types) = 3

\* The fetcher that issues the API call op.
FetcherOf(op) ==
    CASE op \in {"describe_regions", "get_parameters_by_path"} -> "get_regions"
      [] op = "describe_availability_zones" -> "get_zones"
      [] op = "describe_instance_types" -> "get_instance_types"

\* What get_instance_types returns for the region r when nothing fails.
FullCatalog(r) ==
    [i \in 1..Len(Flatten(provider.pages[r])) |->
        InstanceTypeInit(Flatten(provider.pages[r])[i]).value]

\* C7: a failed API call is the last call the run issues (it is not issued
\* again, and the zones and instance types of the remaining regions are not
\* fetched), the run has terminated with the call's own error, and the
\* fetcher that issued it has returned nothing: its frame is gone,
\* get_regions has never returned, get_zones and get_instance_types have
\* returned only for the regions before the current one, and instance_types
\* is still what the region before left in it (its whole catalog), never the
\* pages fetched so far.
C7_FailurePropagates ==
    \A i \in 1..Len(calls) :
        calls[i].outcome # "ok" =>
            /\ i = Len(calls)
            /\ pc = "terminated"
            /\ exc = calls[i].outcome
            /\ ret = <<>>
            /\ returns[FetcherOf(calls[i].op)] =
                    IF FetcherOf(calls[i].op) = "get_regions" THEN 0 ELSE ridx - 1
            /\ (FetcherOf(calls[i].op) = "get_instance_types" /\ ridx > 1) =>
                    instance_types = FullCatalog(regions[ridx - 1].name)

\* The request for the second page of the first of two regions is throttled.
C7_Witness ==
    /\ pc = "terminated"
    /\ exc = "Throttling"
    /\ returns["get_regions"] = 1
    /\ Len(regions) = 2
    /\ ridx = 1
    /\ calls[Len(calls)].op = "describe_instance_types"
    /\ calls[Len(calls)].token # None
    /\ calls[Len(calls)].outcome = "Throttling"
    /\ returns["get_instance_types"] = 0

\* C10: when the main program exits after fetching the instance types of at
\* least one region, the workbook has been saved to a file and holds one row
\* per instance type fetched.
C10_WorkbookWritten ==
    (pc = "exit" /\ returns["get_instance_types"] >= 1) =>
        /\ workbook.saved_to # <<>>
        /\ Len(workbook.rows) =
                Len(Flatten([i \in 1..Len(regions) |-> FullCatalog(regions[i].name)]))

---------------------------------------------------------------------------
(* The instance-store fields of a record without instance storage *)

\* The record says nothing of instance storage: no true
\* InstanceStorageSupported and no InstanceStorageInfo.
StorageAbsent(d) == ~StorageFlagged(d) /\ "InstanceStorageInfo" \notin DOMAIN d

\* The sibling storage fields hold their defaults: size 0, no disks, no
\* encryption requirement.
StorageSiblingsDefaulted(o) ==
    /\ IsSetTo(o, "total_instance_store_size", 0)
    /\ IsSetTo(o, "instance_store_disks", <<>>)
    /\ IsSetTo(o, "instance_store_encryption", FALSE)

\* C11 as claimed: the InstanceType mapped from a record without instance
\* storage has no instance_store_nvme_support attribute, while its total
\* instance-store size is 0, its disk list empty and its encryption
\* requirement false.
C11_AbsentStorageNvmeUnset ==
    (it # None /\ ~it.raised /\ StorageAbsent(data)) =>
        /\ "instance_store_nvme_support" \notin DOMAIN it.value
        /\ StorageSiblingsDefaulted(it.value)

\* C11 as amended: the InstanceType mapped from a record whose
\* InstanceStorageSupported is false or missing (whether or not it has an
\* InstanceStorageInfo) has instance_store_nvme_support set to "unsupported"
\* and the sibling fields defaulted; the attribute is missing exactly from
\* the InstanceType of a record whose InstanceStorageSupported is true.
C11_NvmeUnsetOnlyWhenSupported ==
    (it # None /\ ~it.raised) =>
        /\ ~StorageFlagged(data) =>
            /\ IsSetTo(it.value, "instance_store_nvme_support", "unsupported")
            /\ StorageSiblingsDefaulted(it.value)
        /\ StorageFlagged(data) <=> "instance_store_nvme_support" \notin DOMAIN it.value

\* A record with InstanceStorageSupported false and an InstanceStorageInfo
\* that names disks and an NVMe requirement was mapped.
C11_Witness ==
    /\ it # None
    /\ ~it.raised
    /\ "InstanceStorageSupported" \in DOMAIN data
    /\ data["InstanceStorageSupported"] = FALSE
    /\ "InstanceStorageInfo" \in DOMAIN data
    /\ "NvmeSupport" \in DOMAIN data["InstanceStorageInfo"]
    /\ it.value["instance_store_nvme_support"] = "unsupported"
    /\ it.value["instance_store_disks"] = <<>>

====
